---- MODULE Spec2Model ----
(***************************************************************************)
(* A model of the ip-utils library: IpAddress (src/src/addr.rs) and        *)
(* IpNetwork (src/src/net.rs).                                             *)
(*                                                                         *)
(* A u32 is a bit vector [0..31 -> {0,1}] with index 0 the least           *)
(* significant bit; a u64 is a bit vector over 0..63.  (The values exceed  *)
(* the range of the model checker's integers, and the code is bit          *)
(* arithmetic throughout.)  A [u8; 4] is a sequence of four numbers in     *)
(* 0..255, and a u8 is a number in 0..255.                                 *)
(***************************************************************************)
EXTENDS Integers, Sequences, FiniteSets

\* ------------------------------------------------------------------------
\* Machine integers
\* ------------------------------------------------------------------------

U32_BITS == 32
U64_BITS == 64
U8_MAX == 255

\* Longest chain of supernet/subnets calls explored after one IpNetwork::new.
MaxDepth == 3

U32Idx == 0 .. (U32_BITS - 1)
U64Idx == 0 .. (U64_BITS - 1)

\* Bit k of the natural number v.
Bit(v, k) == (v \div (2 ^ k)) % 2

\* The u32 whose upper and lower 16-bit halves are hi and lo.
U32Lit(hi, lo) == [i \in U32Idx |-> IF i < 16 THEN Bit(lo, i) ELSE Bit(hi, i - 16)]

U32_MAX == [i \in U32Idx |-> 1]
U32_ONE == [i \in U32Idx |-> IF i = 0 THEN 1 ELSE 0]

\* x >> n on u32.  Rust panics on n >= 32 in a checked build and masks the
\* shift amount to n % 32 otherwise; shr_overflows tells the two apart.
shr_u32(x, n) == [i \in U32Idx |-> IF i + (n % U32_BITS) < U32_BITS THEN x[i + (n % U32_BITS)] ELSE 0]
shr_overflows(n) == n >= U32_BITS

\* x << n on u32, same treatment of the shift amount.
shl_u32(x, n) == [i \in U32Idx |-> IF i - (n % U32_BITS) >= 0 THEN x[i - (n % U32_BITS)] ELSE 0]
shl_overflows(n) == n >= U32_BITS

not_u32(x) == [i \in U32Idx |-> 1 - x[i]]
or_u32(x, y) == [i \in U32Idx |-> IF x[i] = 1 \/ y[i] = 1 THEN 1 ELSE 0]
and_u32(x, y) == [i \in U32Idx |-> IF x[i] = 1 /\ y[i] = 1 THEN 1 ELSE 0]

\* u8 addition and subtraction: the wrapped result, and whether the exact
\* result left 0..255 (a panic in a checked build, a wrap otherwise).
add_u8(a, b) == (a + b) % (U8_MAX + 1)
add_u8_overflows(a, b) == a + b > U8_MAX
sub_u8(a, b) == (a - b) % (U8_MAX + 1)
sub_u8_overflows(a, b) == a - b < 0

\* base.pow(exp) for base 2 in an unsigned type of the given width, as a
\* 64-bit vector: exp doublings of 1, each losing the bit shifted out of the
\* type.
RECURSIVE pow2(_, _)
pow2(width, exp) ==
    IF exp = 0
    THEN [i \in U64Idx |-> IF i = 0 THEN 1 ELSE 0]
    ELSE LET half == pow2(width, exp - 1)
         IN  [i \in U64Idx |-> IF i = 0 \/ i >= width THEN 0 ELSE half[i - 1]]
pow2_overflows(width, exp) == exp >= width

\* ------------------------------------------------------------------------
\* Option
\* ------------------------------------------------------------------------

None == [some |-> FALSE]
Some(v) == [some |-> TRUE, val |-> v]

\* ------------------------------------------------------------------------
\* IpAddress (addr.rs)
\* ------------------------------------------------------------------------

\* u32::from_be_bytes: octets[1] is the most significant byte.
from_be_bytes(octets) == [i \in U32Idx |-> Bit(octets[4 - (i \div 8)], i % 8)]

\* The byte made of bits lo .. lo+7 of x.
ByteAt(x, lo) ==
    x[lo] + 2 * x[lo + 1] + 4 * x[lo + 2] + 8 * x[lo + 3]
    + 16 * x[lo + 4] + 32 * x[lo + 5] + 64 * x[lo + 6] + 128 * x[lo + 7]

\* u32::to_be_bytes: most significant byte first.
to_be_bytes(x) == << ByteAt(x, 24), ByteAt(x, 16), ByteAt(x, 8), ByteAt(x, 0) >>

\* impl From<u32> for IpAddress
From_u32(value) == value

\* Variant: the octets taken least significant byte first (from_le_bytes).
From_octets_le(o) == From_u32([i \in U32Idx |-> Bit(o[1 + (i \div 8)], i % 8)])

\* impl From<[u8; 4]> for IpAddress
From_octets(o) == From_u32(from_be_bytes(o))

\* IpAddress::octets
octets(a) == to_be_bytes(a)

\* ------------------------------------------------------------------------
\* IpNetwork (net.rs)
\* ------------------------------------------------------------------------

\* Variant: the upper end of the range excluded (0..32 for 0..=32).
new_exclusive(base, prefix_len) ==
    IF 0 <= prefix_len /\ prefix_len < 32
    THEN [some |-> TRUE, val |-> [base |-> base, prefix_len |-> prefix_len]]
    ELSE [some |-> FALSE]

\* Variant: no validation of the prefix length.
new_unchecked(base, prefix_len) ==
    [some |-> TRUE, val |-> [base |-> base, prefix_len |-> prefix_len]]

\* IpNetwork::new
new(base, prefix_len) ==
    IF 0 <= prefix_len /\ prefix_len <= 32
    THEN Some([base |-> base, prefix_len |-> prefix_len])
    ELSE None

\* IpNetwork::num_network_bits
num_network_bits(n) == n.prefix_len

\* IpNetwork::num_host_bits
num_host_bits(n) == sub_u8(32, num_network_bits(n))
num_host_bits_overflows(n) == sub_u8_overflows(32, num_network_bits(n))

\* Variant: the power taken in u32 (2_u32.pow) and widened afterwards.
num_hosts_u32(n) == pow2(U32_BITS, num_host_bits(n))

\* IpNetwork::num_hosts
num_hosts(n) == pow2(U64_BITS, num_host_bits(n))
num_hosts_overflows(n) ==
    num_host_bits_overflows(n) \/ pow2_overflows(U64_BITS, num_host_bits(n))

\* Variant: the base cleared below the new, shorter prefix.
supernet_masked(n) ==
    IF num_network_bits(n) = 0
    THEN None
    ELSE new(and_u32(n.base, not_u32(shr_u32(U32_MAX, sub_u8(num_network_bits(n), 1)))),
             sub_u8(num_network_bits(n), 1))

\* IpNetwork::supernet
supernet(n) ==
    IF num_network_bits(n) = 0
    THEN None
    ELSE new(n.base, sub_u8(num_network_bits(n), 1))
supernet_overflows(n) ==
    num_network_bits(n) # 0 /\ sub_u8_overflows(num_network_bits(n), 1)

\* Variant: the pair returned lower first.
subnets_swapped(n) ==
    LET lower == new(n.base, add_u8(num_network_bits(n), 1))
    IN  IF lower.some
        THEN LET lower_net == lower.val
                 upper_net == [lower_net EXCEPT !.base =
                                  or_u32(lower_net.base,
                                         shl_u32(U32_ONE, num_host_bits(lower_net)))]
             IN  Some(<< lower_net, upper_net >>)
        ELSE None

\* Variant: the bit set is the parent's most significant host bit plus one
\* (1 << self.num_host_bits() for 1 << lower_net.num_host_bits()).
subnets_parent_bit(n) ==
    LET lower == new(n.base, add_u8(num_network_bits(n), 1))
    IN  IF lower.some
        THEN LET lower_net == lower.val
                 upper_net == [lower_net EXCEPT !.base =
                                  or_u32(lower_net.base, shl_u32(U32_ONE, num_host_bits(n)))]
             IN  Some(<< upper_net, lower_net >>)
        ELSE None

\* IpNetwork::subnets
subnets(n) ==
    LET lower == new(n.base, add_u8(num_network_bits(n), 1))
    IN  IF lower.some
        THEN LET lower_net == lower.val
                 upper_net == [lower_net EXCEPT !.base =
                                  From_u32(or_u32(lower_net.base,
                                                  shl_u32(U32_ONE, num_host_bits(lower_net))))]
             IN  Some(<< upper_net, lower_net >>)
        ELSE None
subnets_overflows(n) ==
    \/ add_u8_overflows(num_network_bits(n), 1)
    \/ LET lower == new(n.base, add_u8(num_network_bits(n), 1))
       IN  /\ lower.some
           /\ \/ num_host_bits_overflows(lower.val)
              \/ shl_overflows(num_host_bits(lower.val))

\* Variant: no branch for a prefix length of 32.
get_mask_unguarded(n) == not_u32(shr_u32(U32_MAX, num_network_bits(n)))

\* IpNetwork::get_mask
get_mask(n) ==
    IF num_network_bits(n) = 32
    THEN From_u32(U32_MAX)
    ELSE From_u32(not_u32(shr_u32(U32_MAX, num_network_bits(n))))
get_mask_overflows(n) ==
    num_network_bits(n) # 32 /\ shr_overflows(num_network_bits(n))

\* ------------------------------------------------------------------------
\* Inputs
\* ------------------------------------------------------------------------

\* Octet arrays used as network bases: clean and unaligned bases, the
\* extremes, and the arrays of the unit tests.
BaseArrays ==
    { << 0, 0, 0, 0 >>, << 255, 255, 255, 255 >>, << 128, 0, 0, 0 >>,
      << 10, 0, 0, 0 >>, << 40, 200, 3, 145 >>, << 255, 192, 0, 0 >>,
      << 0, 0, 0, 1 >>, << 0, 0, 255, 255 >>, << 192, 168, 1, 0 >>,
      << 255, 255, 255, 252 >>, << 127, 255, 255, 255 >>, << 1, 1, 1, 1 >> }

\* Octet arrays handed to the address conversions.
OctetSamples == { 0, 200, 255 }
OctetArrays ==
    { << a, b, c, d >> : a \in OctetSamples, b \in OctetSamples,
                         c \in OctetSamples, d \in OctetSamples }
    \cup { << 0, 0, 0, 10 >>, << 1, 1, 1, 1 >>, << 40, 200, 3, 145 >>,
           << 0, 0, 255, 255 >>, << 128, 0, 0, 1 >> }

\* u32 values handed to From<u32>: 0, 10, 16843009, 684196753, 65535,
\* u32::MAX (addr.rs tests), 4290772992, 3578789888 (net.rs tests), 2^31.
U32Samples ==
    { U32Lit(0, 0), U32Lit(0, 10), U32Lit(257, 257), U32Lit(10440, 913),
      U32Lit(0, 65535), U32_MAX, U32Lit(65472, 0), U32Lit(54608, 0),
      U32Lit(32768, 0) }

\* ------------------------------------------------------------------------
\* State
\* ------------------------------------------------------------------------

VARIABLES
    net,    \* the Option<IpNetwork> the caller holds
    hist,   \* the last two calls of new / supernet / subnets, oldest first
    query,  \* the last call of an accessor on the held network
    depth,  \* supernet / subnets calls made since the last new
    ovf,    \* some integer operation left the range of its type
    addr,   \* the IpAddress the caller holds
    octs,   \* the [u8; 4] the caller holds
    aop,    \* the last address operation
    aprev,  \* the address operation before it
    asrc    \* what the last address operation replaced, or its argument

netvars == << net, hist, query, depth, ovf >>
addrvars == << addr, octs, aop, aprev, asrc >>
vars == << net, hist, query, depth, ovf, addr, octs, aop, aprev, asrc >>

NoQuery == [op |-> "none"]

Init ==
    /\ net = None
    /\ hist = << >>
    /\ query = NoQuery
    /\ depth = 0
    /\ ovf = FALSE
    /\ addr = From_u32(U32Lit(0, 0))
    /\ octs = << 0, 0, 0, 0 >>
    /\ aop = "init"
    /\ aprev = "init"
    /\ asrc = << 0, 0, 0, 0 >>

\* hist with call c added, keeping the last two calls.
Push(h, c) == IF Len(h) < 2 THEN Append(h, c) ELSE << h[2], c >>

\* ------------------------------------------------------------------------
\* Network operations
\* ------------------------------------------------------------------------

\* IpNetwork::new(IpAddress::from(o), p), for any u8 p.  Networks are
\* immutable values that do not interact, so a run follows one of them: the
\* caller constructs once and then works on what it got.
NetNew ==
    \E o \in BaseArrays, p \in 0 .. U8_MAX :
        LET r == new(From_octets(o), p)
        IN  /\ hist = << >>
            /\ net' = r
            /\ hist' = << [op |-> "new", arg |-> [base |-> From_octets(o), prefix_len |-> p],
                           ret |-> r, pick |-> 0] >>
            /\ query' = NoQuery
            /\ depth' = 0
            /\ UNCHANGED << ovf, addrvars >>

\* net.supernet(); the caller goes on with the result when there is one.
Supernet ==
    /\ net.some
    /\ depth < MaxDepth
    /\ LET r == supernet(net.val)
       IN  /\ net' = IF r.some THEN r ELSE net
           /\ hist' = Push(hist, [op |-> "supernet", arg |-> net.val, ret |-> r, pick |-> 0])
           /\ ovf' = (ovf \/ supernet_overflows(net.val))
    /\ query' = NoQuery
    /\ depth' = depth + 1
    /\ UNCHANGED addrvars

\* net.subnets(); the caller goes on with the first (pick = 1) or the
\* second (pick = 2) component of the pair when there is one.
Subnets ==
    /\ net.some
    /\ depth < MaxDepth
    /\ \E pick \in { 1, 2 } :
           LET r == subnets(net.val)
           IN  /\ net' = IF r.some THEN Some(r.val[pick]) ELSE net
               /\ hist' = Push(hist, [op |-> "subnets", arg |-> net.val, ret |-> r, pick |-> pick])
               /\ ovf' = (ovf \/ subnets_overflows(net.val))
    /\ query' = NoQuery
    /\ depth' = depth + 1
    /\ UNCHANGED addrvars

NumNetworkBits ==
    /\ net.some
    /\ query' = [op |-> "num_network_bits", arg |-> net.val, ret |-> num_network_bits(net.val)]
    /\ UNCHANGED << net, hist, depth, ovf, addrvars >>

NumHostBits ==
    /\ net.some
    /\ query' = [op |-> "num_host_bits", arg |-> net.val, ret |-> num_host_bits(net.val)]
    /\ ovf' = (ovf \/ num_host_bits_overflows(net.val))
    /\ UNCHANGED << net, hist, depth, addrvars >>

NumHosts ==
    /\ net.some
    /\ query' = [op |-> "num_hosts", arg |-> net.val, ret |-> num_hosts(net.val)]
    /\ ovf' = (ovf \/ num_hosts_overflows(net.val))
    /\ UNCHANGED << net, hist, depth, addrvars >>

GetMask ==
    /\ net.some
    /\ query' = [op |-> "get_mask", arg |-> net.val, ret |-> get_mask(net.val)]
    /\ ovf' = (ovf \/ get_mask_overflows(net.val))
    /\ UNCHANGED << net, hist, depth, addrvars >>

Next ==
    \/ NetNew
    \/ Supernet
    \/ Subnets
    \/ NumNetworkBits
    \/ NumHostBits
    \/ NumHosts
    \/ GetMask

Spec == Init /\ [][Next]_vars

\* ------------------------------------------------------------------------
\* Address operations
\* ------------------------------------------------------------------------

\* The caller writes down an octet array.
AddrArray ==
    \E o \in OctetArrays :
        /\ octs' = o
        /\ asrc' = o
        /\ aprev' = aop
        /\ aop' = "array"
        /\ UNCHANGED << addr, netvars >>

\* IpAddress::from(v) / IpAddress::new(v) for a u32 v.
AddrFromU32 ==
    \E v \in U32Samples :
        /\ addr' = From_u32(v)
        /\ asrc' = v
        /\ aprev' = aop
        /\ aop' = "from_u32"
        /\ UNCHANGED << octs, netvars >>

\* IpAddress::from(octs)
AddrFromOctets ==
    /\ addr' = From_octets(octs)
    /\ asrc' = addr
    /\ aprev' = aop
    /\ aop' = "from_octets"
    /\ UNCHANGED << octs, netvars >>

\* addr.octets()
AddrOctets ==
    /\ octs' = octets(addr)
    /\ asrc' = octs
    /\ aprev' = aop
    /\ aop' = "octets"
    /\ UNCHANGED << addr, netvars >>

AddrNext ==
    \/ AddrArray
    \/ AddrFromU32
    \/ AddrFromOctets
    \/ AddrOctets

AddrSpec == Init /\ [][AddrNext]_vars

\* ------------------------------------------------------------------------
\* Properties
\* ------------------------------------------------------------------------

\* The last call of new / supernet / subnets.
HasCall == hist # << >>
Last == hist[Len(hist)]

\* The value of the 16 bits lo .. lo+15 of x.
RECURSIVE BitsValue(_, _, _)
BitsValue(x, lo, k) == IF k = 0 THEN 0 ELSE x[lo] + 2 * BitsValue(x, lo + 1, k - 1)
Half(x, lo) == BitsValue(x, lo, 16)

\* x with bit k set to 1.
WithBit(x, k) == [i \in U32Idx |-> IF i = k THEN 1 ELSE x[i]]

\* Address a lies in network n: its leading prefix_len bits are those of
\* n's base.
InNet(a, n) == \A i \in U32Idx : i >= 32 - n.prefix_len => a[i] = n.base[i]

\* Addresses around a base: the base itself and the base with one bit
\* flipped, for each of the 32 bits.
Probes(b) == { b } \cup { [i \in U32Idx |-> IF i = k THEN 1 - b[i] ELSE b[i]] : k \in U32Idx }

\* C1: for every base and every u8 prefix length p, new(base, p) is Some
\* exactly when 0 <= p <= 32, and the network it then holds has exactly the
\* given base (low bits not cleared) and the given prefix length.
C1_CreateValidity ==
    (HasCall /\ Last.op = "new") =>
        /\ Last.ret.some <=> (0 <= Last.arg.prefix_len /\ Last.arg.prefix_len <= 32)
        /\ Last.arg.prefix_len \in { 33, 200, 255 } => ~Last.ret.some
        /\ Last.ret.some =>
              /\ Last.ret.val.base = Last.arg.base
              /\ Last.ret.val.prefix_len = Last.arg.prefix_len

\* A successful new with a base whose low bits are set under a short prefix.
C1_Witness ==
    /\ HasCall /\ Last.op = "new" /\ Last.ret.some
    /\ Last.arg.prefix_len = 8
    /\ octets(Last.ret.val.base) = << 40, 200, 3, 145 >>

\* Every network in the result of call c has a prefix length in 0..32.
ResultInRange(c) ==
    c.ret.some =>
        IF c.op = "subnets"
        THEN c.ret.val[1].prefix_len \in 0 .. 32 /\ c.ret.val[2].prefix_len \in 0 .. 32
        ELSE c.ret.val.prefix_len \in 0 .. 32

\* C2: every network obtained from a successful new by any chain of
\* supernet and subnets calls (either component) has a prefix length in
\* 0..32, and no u8 computation on the way (network_bits + 1,
\* network_bits - 1, 32 - network_bits) leaves the range of u8.
C2_PrefixInRange ==
    /\ net.some => net.val.prefix_len \in 0 .. 32
    /\ \A i \in 1 .. Len(hist) : ResultInRange(hist[i])
    /\ ~ovf

\* A chain of calls that has gone down to the longest prefix, where
\* subnets has nothing more to return.
C2_Witness ==
    /\ depth >= 2
    /\ net.some /\ net.val.prefix_len = 32
    /\ Last.op = "subnets" /\ ~Last.ret.some
    /\ hist[1].op = "subnets" /\ hist[1].ret.some

\* C3: get_mask of a network with prefix length p is the address with its
\* top p bits 1 and its other 32 - p bits 0, whatever the base: 0.0.0.0 for
\* p = 0, 255.255.0.0 for p = 16, 255.255.255.255 for p = 32.
C3_MaskCorrect ==
    query.op = "get_mask" =>
        /\ \A i \in U32Idx :
              query.ret[i] = IF i >= 32 - query.arg.prefix_len THEN 1 ELSE 0
        /\ query.arg.prefix_len = 0 => octets(query.ret) = << 0, 0, 0, 0 >>
        /\ query.arg.prefix_len = 16 => octets(query.ret) = << 255, 255, 0, 0 >>
        /\ query.arg.prefix_len = 32 => octets(query.ret) = << 255, 255, 255, 255 >>

\* The mask of a /32 on the base 0.0.0.0.
C3_Witness ==
    /\ query.op = "get_mask"
    /\ query.arg.prefix_len = 32
    /\ octets(query.arg.base) = << 0, 0, 0, 0 >>
    /\ query.ret = U32_MAX

\* C4: subnets of a network with prefix length p < 32 returns two networks
\* of prefix length p + 1 whose bases differ in exactly one bit, bit 31 - p.
C4_OneBitApart ==
    (HasCall /\ Last.op = "subnets" /\ Last.ret.some) =>
        LET upper == Last.ret.val[1]
            lower == Last.ret.val[2]
            p == Last.arg.prefix_len
        IN  /\ upper.prefix_len = p + 1
            /\ lower.prefix_len = p + 1
            /\ { i \in U32Idx : upper.base[i] # lower.base[i] } = { 31 - p }

\* C5: the two networks returned by subnets partition the parent's range:
\* no address lies in both, both are one bit more specific than the parent
\* (half its size), and an address lies in the parent exactly when it lies
\* in one of the two.  Stated for the addresses around the parent's base.
C5_Partition ==
    (HasCall /\ Last.op = "subnets" /\ Last.ret.some) =>
        LET upper == Last.ret.val[1]
            lower == Last.ret.val[2]
            parent == Last.arg
        IN  /\ upper.prefix_len = parent.prefix_len + 1
            /\ lower.prefix_len = parent.prefix_len + 1
            /\ \A a \in Probes(parent.base) :
                  /\ ~(InNet(a, upper) /\ InNet(a, lower))
                  /\ InNet(a, parent) <=> (InNet(a, upper) \/ InNet(a, lower))

\* C6: supernet of a network (b, p) is None exactly when p = 0; otherwise
\* it is new(b, p - 1): prefix length one less, base bit for bit the same.
\* The caller's network is what it was when there is no supernet.
C6_Supernet ==
    (HasCall /\ Last.op = "supernet") =>
        /\ ~Last.ret.some <=> Last.arg.prefix_len = 0
        /\ Last.ret.some =>
              /\ Last.ret.val.prefix_len = Last.arg.prefix_len - 1
              /\ Last.ret.val.base = Last.arg.base
              /\ Last.ret = new(Last.arg.base, Last.arg.prefix_len - 1)
        /\ ~Last.ret.some => net = Some(Last.arg)

\* The supernet of a network whose base has bits set below the new prefix.
C6_Witness ==
    /\ HasCall /\ Last.op = "supernet" /\ Last.ret.some
    /\ Last.arg.prefix_len = 10
    /\ octets(Last.ret.val.base) = << 255, 192, 0, 0 >>

\* C7: num_hosts of a network with prefix length p is exactly 2^(32 - p),
\* with no overflow: 1 for p = 32, 2 for p = 31, 2^32 for p = 0.
C7_HostCount ==
    query.op = "num_hosts" =>
        /\ \A i \in U64Idx :
              query.ret[i] = IF i = 32 - query.arg.prefix_len THEN 1 ELSE 0
        /\ ~ovf

\* The host count of a /0: bit 32 alone, 4294967296.
C7_Witness ==
    /\ query.op = "num_hosts"
    /\ query.arg.prefix_len = 0
    /\ query.ret[32] = 1

C9_OctetRoundTrip ==
    /\ (aop = "octets" /\ aprev = "from_octets") => octs = asrc
    /\ (aop = "from_octets" /\ aprev = "octets") => addr = asrc
    /\ aop = "from_octets" =>
          /\ Half(addr, 16) = octs[1] * 256 + octs[2]
          /\ Half(addr, 0) = octs[3] * 256 + octs[4]

\* 684196753 turned into octets and back.
C9_Witness ==
    /\ aop = "from_octets" /\ aprev = "octets"
    /\ octs = << 40, 200, 3, 145 >>
    /\ addr = U32Lit(10440, 913)

\* A supernet call made on a component of the pair the call before it
\* returned.
SubnetsThenSupernet ==
    /\ Len(hist) = 2
    /\ hist[1].op = "subnets" /\ hist[1].ret.some
    /\ hist[2].op = "supernet"
    /\ hist[2].arg = hist[1].ret.val[hist[1].pick]

\* C10: supernet of either network returned by subnets(n) is n (same base,
\* same prefix length).
C10_SupernetUndoesSubnets ==
    SubnetsThenSupernet => hist[2].ret = Some(hist[1].arg)

\* C10 as amended: supernet of the lower network returned by subnets(n) is
\* n; supernet of the upper one has n's prefix length and n's base with bit
\* 31 - p set to 1, which is n only when that bit of n's base is already 1.
C10_SupernetOfSubnets ==
    SubnetsThenSupernet =>
        LET n == hist[1].arg
            p == hist[1].arg.prefix_len
        IN  /\ hist[1].pick = 2 => hist[2].ret = Some(n)
            /\ hist[1].pick = 1 =>
                  hist[2].ret = Some([base |-> WithBit(n.base, 31 - p), prefix_len |-> p])
            /\ hist[2].ret = Some(n) <=> (hist[1].pick = 2 \/ n.base[31 - p] = 1)

\* The supernet of the upper half of 10.0.0.0/8 is 10.128.0.0/8.
C10_Witness ==
    /\ SubnetsThenSupernet
    /\ hist[1].pick = 1
    /\ octets(hist[1].arg.base) = << 10, 0, 0, 0 >> /\ hist[1].arg.prefix_len = 8
    /\ hist[2].ret.some
    /\ octets(hist[2].ret.val.base) = << 10, 128, 0, 0 >>
    /\ hist[2].ret.val.prefix_len = 8

====
